---- MODULE Spec2Model ----
(***************************************************************************)
(* The MinerU processing registry (scripts/mineru_registry.py), the merge  *)
(* of per-chunk result files (scripts/merge_mineru_results.py), the chunk  *)
(* planner (scripts/generate_cleanup_swarm.py) and the per-item result of  *)
(* chunk execution (scripts/process_pdfs_mineru.py).                       *)
(*                                                                         *)
(* Text is a sequence of tokens: the token " " is one run of whitespace,   *)
(* every other token is a run of non-blank characters.  The empty text is  *)
(* <<>>.  A database NULL / Python None in a text column is the reserved   *)
(* text NULL; in a numeric column it is a negative number.                 *)
(***************************************************************************)
EXTENDS Integers, Sequences, FiniteSets, TLC

VARIABLES
    reg,     \* the rows of table mineru_status
    now,     \* CURRENT_TIMESTAMP of the next command
    last,    \* the last command: its name and what it returned or printed
    engine,  \* how the storage engine converts '' bound to a FLOAT column
    db,      \* whether the registry file exists (db_path.exists())
    outfile  \* the file at the --output path of the export commands

vars == <<reg, now, last, engine, db, outfile>>

(***************************************************************************)
(* Bounds of the model.                                                    *)
(***************************************************************************)
MaxClock == 3      \* commands run against one registry
MaxRows == 2       \* rows of one manifest, directory listing or report
MaxLines == 4      \* lines of a pmid file given to the chunk planner
MaxChunk == 3      \* largest --chunk-size tried

(***************************************************************************)
(* Text.                                                                   *)
(***************************************************************************)
NULL == <<"NULL">>
NoTime == 0 - 1
NoSize == 0 - 1
SP == " "

RECURSIVE lstrip(_)
lstrip(s) == IF s # <<>> /\ Head(s) = SP THEN lstrip(Tail(s)) ELSE s

RECURSIVE rstrip(_)
rstrip(s) ==
    IF s # <<>> /\ s[Len(s)] = SP THEN rstrip(SubSeq(s, 1, Len(s) - 1)) ELSE s

\* str.strip()
strip(s) == rstrip(lstrip(s))

\* the idiom  x.strip() or None
StripOrNone(s) == IF strip(s) = <<>> THEN NULL ELSE strip(s)

\* float(text): the value, or NoTime when float() raises ValueError.
\* float() itself ignores surrounding whitespace.
ParseFloat(s) ==
    CASE strip(s) = <<"12.5">> -> 12
      [] strip(s) = <<"3.0">> -> 3
      [] OTHER -> NoTime

pending == <<"pending">>
completed == <<"completed">>
failed == <<"failed">>

(***************************************************************************)
(* Table mineru_status.                                                    *)
(***************************************************************************)
Pmids(table) == {r.pmid : r \in table}

\* an INSERT whose updated_at has no default of the current time
NewRecordEpoch(pmid, pdf_path, file_size, ts) ==
    [pmid |-> pmid, pdf_path |-> pdf_path, json_path |-> NULL,
     md_path |-> NULL, status |-> pending, error_msg |-> NULL,
     processing_time |-> NoTime, file_size |-> file_size,
     created_at |-> ts, updated_at |-> 0]

\* column defaults of CREATE TABLE plus the INSERT's explicit columns
NewRecord(pmid, pdf_path, file_size, ts) ==
    [pmid |-> pmid, pdf_path |-> pdf_path, json_path |-> NULL,
     md_path |-> NULL, status |-> pending, error_msg |-> NULL,
     processing_time |-> NoTime, file_size |-> file_size,
     created_at |-> ts, updated_at |-> ts]

\* INSERT ... ON CONFLICT (pmid) DO NOTHING
InsertOrIgnoreDup(table, row) == table \cup {row}
InsertOrIgnore(table, row) ==
    IF row.pmid \in Pmids(table) THEN table ELSE table \cup {row}

(***************************************************************************)
(* cmd_init: rows of the manifest CSV, in file order.                      *)
(***************************************************************************)
RECURSIVE InitRows(_, _, _)
InitRows(table, rows, ts) ==
    IF rows = <<>> THEN table
    ELSE LET pmid == strip(Head(rows).pmid)
             pdf_path == strip(Head(rows).pdf_path)
         IN  IF pmid = <<>> \/ pdf_path = <<>>
             THEN InitRows(table, Tail(rows), ts)
             ELSE InitRows(
                      InsertOrIgnore(table,
                                     NewRecord(pmid, pdf_path, NoSize, ts)),
                      Tail(rows), ts)

\* get_db called before the precondition is checked
get_db_unchecked(exists, passed) == TRUE

\* Whether the registry file exists after cmd_init or cmd_scan_pdfs: get_db
\* (duckdb.connect creates the file) is called only once the check of the
\* manifest or directory has passed.
get_db(exists, passed) == exists \/ passed

\* found: manifest_path.exists()
cmd_init(manifest, found) ==
    /\ now < MaxClock
    /\ IF ~found
       THEN /\ last' = [pre |-> TRUE, op |-> "init",
                        ret |-> [rc |-> 1, new_entries |-> 0]]
            /\ reg' = reg
       ELSE /\ reg' = InitRows(reg, manifest, now)
            /\ last' = [pre |-> FALSE, op |-> "init",
                        ret |-> [rc |-> 0,
                                 new_entries |->
                                     Cardinality(reg') - Cardinality(reg)]]
    /\ db' = get_db(db, found)
    /\ now' = now + 1
    /\ UNCHANGED <<engine, outfile>>

(***************************************************************************)
(* cmd_scan_pdfs: the files os.walk yields, in walk order.  A file is its  *)
(* directory, its name (tokens, the extension last) and what getsize gives *)
(* (NoSize when it raises OSError).                                        *)
(***************************************************************************)
batch_size == 10000

\* str.lower() on a token
lower(t) == IF t = ".PDF" THEN ".pdf" ELSE t

\* runs of 6 to 10 digits
PmidDigits == {"100001", "100002"}

\* pmid_pattern.search(filename): group 1, or <<>> when there is no match
pmid_pattern(filename) ==
    IF /\ Len(filename) >= 2
       /\ lower(filename[Len(filename)]) = ".pdf"
       /\ filename[Len(filename) - 1] \in PmidDigits
    THEN <<filename[Len(filename) - 1]>>
    ELSE <<>>

\* INSERT ... ON CONFLICT DO NOTHING, executemany over a batch
RECURSIVE InsertBatch(_, _, _)
InsertBatch(table, batch, ts) ==
    IF batch = <<>> THEN table
    ELSE InsertBatch(
             InsertOrIgnore(table,
                            NewRecord(Head(batch)[1], Head(batch)[2],
                                      Head(batch)[3], ts)),
             Tail(batch), ts)

\* the walk: st = [table, existing, batch, added, skipped]
ScanSkipNone(pmid, existing) == FALSE
ScanSkip(pmid, existing) == pmid \in existing

RECURSIVE ScanFiles(_, _, _)
ScanFiles(st, files, ts) ==
    IF files = <<>> THEN st
    ELSE LET f == Head(files)
             fname == f.filename
             pmid == pmid_pattern(fname)
         IN  IF lower(fname[Len(fname)]) # ".pdf" \/ pmid = <<>>
             THEN ScanFiles(st, Tail(files), ts)
             ELSE IF ScanSkip(pmid, st.existing)
             THEN ScanFiles([st EXCEPT !.skipped = @ + 1], Tail(files), ts)
             ELSE LET b == Append(st.batch, <<pmid, f.root \o fname, f.size>>)
                      flush == Len(b) >= batch_size
                  IN  ScanFiles(
                          [table |-> IF flush
                                     THEN InsertBatch(st.table, b, ts)
                                     ELSE st.table,
                           existing |-> st.existing \cup {pmid},
                           batch |-> IF flush THEN <<>> ELSE b,
                           added |-> st.added + 1,
                           skipped |-> st.skipped],
                          Tail(files), ts)

ScanPdfs(table, files, ts) ==
    LET st == ScanFiles([table |-> table, existing |-> Pmids(table),
                         batch |-> <<>>, added |-> 0, skipped |-> 0],
                        files, ts)
    IN  [table |-> InsertBatch(st.table, st.batch, ts),
         added |-> st.added, skipped |-> st.skipped]

\* found: pdf_dir.exists().  get_db creates the registry file.
cmd_scan_pdfs(files, found) ==
    /\ now < MaxClock
    /\ IF ~found
       THEN /\ last' = [pre |-> TRUE, op |-> "scan-pdfs",
                        ret |-> [rc |-> 1, added |-> 0, skipped |-> 0]]
            /\ reg' = reg
       ELSE LET res == ScanPdfs(reg, files, now)
            IN  /\ reg' = res.table
                /\ last' = [pre |-> FALSE, op |-> "scan-pdfs",
                            ret |-> [rc |-> 0, added |-> res.added,
                                     skipped |-> res.skipped]]
    /\ db' = get_db(db, found)
    /\ now' = now + 1
    /\ UNCHANGED <<engine, outfile>>

(***************************************************************************)
(* Result ingestion.  A report row is a CSV row: every cell is text.       *)
(* The UPDATE statements run in autocommit mode: each one is durable when  *)
(* it returns.  An empty processing_time cell is falsy, skips float() and  *)
(* is bound as '' to the FLOAT column; the storage engine either stores    *)
(* NULL for it or rejects the statement with a conversion error.           *)
(***************************************************************************)
Engines == {"null", "raise"}

\* UPDATE mineru_status SET ... WHERE pmid = ?, and two statements that it
\* is not: an upsert, and one that accumulates processing_time
UpdateStatusUpsert(table, pmid, status, json_path, md_path, error_msg, processing_time, ts) ==
    IF pmid \in Pmids(table)
    THEN {IF r.pmid = pmid
          THEN [r EXCEPT !.status = status, !.json_path = json_path,
                         !.md_path = md_path, !.error_msg = error_msg,
                         !.processing_time = processing_time,
                         !.updated_at = ts]
          ELSE r : r \in table}
    ELSE table \cup {[NewRecord(pmid, NULL, NoSize, ts)
                         EXCEPT !.status = status, !.json_path = json_path,
                                !.md_path = md_path,
                                !.error_msg = error_msg,
                                !.processing_time = processing_time]}

UpdateStatusAddTime(table, pmid, status, json_path, md_path, error_msg, processing_time, ts) ==
    {IF r.pmid = pmid
     THEN [r EXCEPT !.status = status, !.json_path = json_path,
                    !.md_path = md_path, !.error_msg = error_msg,
                    !.processing_time =
                        IF @ = NoTime \/ processing_time = NoTime
                        THEN processing_time ELSE @ + processing_time,
                    !.updated_at = ts]
     ELSE r : r \in table}

UpdateStatus(table, pmid, status, json_path, md_path, error_msg, processing_time, ts) ==
    {IF r.pmid = pmid
     THEN [r EXCEPT !.status = status, !.json_path = json_path,
                    !.md_path = md_path, !.error_msg = error_msg,
                    !.processing_time = processing_time,
                    !.updated_at = ts]
     ELSE r : r \in table}

\* the values one row binds to the UPDATE
RowStatus(row) == strip(row.status)
RowTime(row) ==
    IF row.processing_time # <<>> THEN ParseFloat(row.processing_time)
    ELSE NoTime

\* cmd_update's loop: st = [table, updated, raised]
RECURSIVE UpdateRows(_, _, _, _)
UpdateRows(st, rows, ts, eng) ==
    IF rows = <<>> \/ st.raised THEN st
    ELSE LET row == Head(rows)
             pmid == strip(row.pmid)
         IN  IF pmid = <<>> THEN UpdateRows(st, Tail(rows), ts, eng)
             ELSE IF row.processing_time = <<>> /\ eng = "raise"
             THEN [st EXCEPT !.raised = TRUE]
             ELSE UpdateRows(
                      [table |-> UpdateStatus(st.table, pmid, RowStatus(row),
                                     StripOrNone(row.json_path),
                                     StripOrNone(row.md_path),
                                     StripOrNone(row.error_msg),
                                     RowTime(row), ts),
                       updated |-> st.updated + 1,
                       raised |-> FALSE],
                      Tail(rows), ts, eng)

\* found: results_path.exists()
cmd_update(results, found) ==
    /\ now < MaxClock
    /\ IF ~db \/ ~found
       THEN /\ last' = [pre |-> TRUE, op |-> "update",
                        ret |-> [rc |-> 1, updated |-> 0]]
            /\ UNCHANGED reg
       ELSE LET st == UpdateRows([table |-> reg, updated |-> 0,
                                  raised |-> FALSE], results, now, engine)
            IN  /\ reg' = st.table
                /\ last' = [pre |-> FALSE, op |-> "update",
                            ret |-> [rc |-> IF st.raised THEN 1 ELSE 0,
                                     updated |-> st.updated]]
    /\ now' = now + 1
    /\ UNCHANGED <<engine, db, outfile>>

(***************************************************************************)
(* merge_mineru_results.py.  The input directory is the sequence of its    *)
(* matching files in sorted order, each file the sequence of its rows.     *)
(***************************************************************************)
\* load_csv_files: every row of every file, files in sorted order
RECURSIVE load_csv_files(_)
load_csv_files(files) ==
    IF files = <<>> THEN <<>>
    ELSE Head(files) \o load_csv_files(Tail(files))

\* the positions of records that are kept, in order, from position i on
RECURSIVE KeepAt(_, _, _)
KeepAt(records, kept, i) ==
    IF i > Len(records) THEN <<>>
    ELSE IF i \in kept THEN <<i>> \o KeepAt(records, kept, i + 1)
    ELSE KeepAt(records, kept, i + 1)

LastIndexOf(records, pmid) ==
    CHOOSE i \in 1..Len(records) :
        /\ records[i].pmid = pmid
        /\ \A j \in (i + 1)..Len(records) : records[j].pmid # pmid

\* df.drop_duplicates(subset=["pmid"], keep="last")
drop_duplicates_first(records) ==
    LET kept == {i \in 1..Len(records) :
                    \A j \in 1..(i - 1) : records[j].pmid # records[i].pmid}
        idx == KeepAt(records, kept, 1)
    IN  [k \in 1..Len(idx) |-> records[idx[k]]]

drop_duplicates(records) ==
    LET kept == {i \in 1..Len(records) :
                    \A j \in (i + 1)..Len(records) :
                        records[j].pmid # records[i].pmid}
        idx == KeepAt(records, kept, 1)
    IN  [k \in 1..Len(idx) |-> records[idx[k]]]

\* the CSV-only fallback: seen[pmid] = record, then list(seen.values());
\* a dict keeps the position of a key's first insertion and its last value,
\* and a record without pmid is kept under a key of its own
seen_values(records) ==
    LET kept == {i \in 1..Len(records) :
                    \/ records[i].pmid = <<>>
                    \/ \A j \in 1..(i - 1) :
                           records[j].pmid # records[i].pmid}
        idx == KeepAt(records, kept, 1)
    IN  [k \in 1..Len(idx) |->
            IF records[idx[k]].pmid = <<>> THEN records[idx[k]]
            ELSE records[LastIndexOf(records, records[idx[k]].pmid)]]

\* save_output: the rows written to the output file
save_output(records, pandas) ==
    IF pandas THEN drop_duplicates(records) ELSE seen_values(records)

\* update_registry's loop: st = [table, updated, raised]
RECURSIVE RegistryRows(_, _, _, _)
RegistryRows(st, records, ts, eng) ==
    IF records = <<>> \/ st.raised THEN st
    ELSE LET record == Head(records)
             pmid == strip(record.pmid)
         IN  IF pmid = <<>> THEN RegistryRows(st, Tail(records), ts, eng)
             ELSE IF record.processing_time = <<>> /\ eng = "raise"
             THEN [st EXCEPT !.raised = TRUE]
             ELSE RegistryRows(
                      [table |-> UpdateStatus(st.table, pmid,
                                     RowStatus(record),
                                     StripOrNone(record.json_path),
                                     StripOrNone(record.md_path),
                                     StripOrNone(record.error_msg),
                                     RowTime(record), ts),
                       updated |-> IF pmid \in Pmids(st.table)
                                   THEN st.updated + 1 ELSE st.updated,
                       raised |-> FALSE],
                      Tail(records), ts, eng)

update_registry(table, records, ts, eng) ==
    RegistryRows([table |-> table, updated |-> 0, raised |-> FALSE],
                 records, ts, eng)

\* main() of the merge script, run with --update-registry or without.
\* found: args.input_dir.exists().  update_registry returns at once when the
\* registry file does not exist, and main goes on to return 0.
merge_main(files, found, pandas, upd) ==
    /\ now < MaxClock
    /\ LET records == IF found THEN load_csv_files(files) ELSE <<>>
           st == IF upd /\ db /\ records # <<>>
                 THEN update_registry(reg, records, now, engine)
                 ELSE [table |-> reg, updated |-> 0, raised |-> FALSE]
       IN  /\ reg' = st.table
           /\ last' = [pre |-> ~found, op |-> "merge",
                       ret |-> [rc |-> IF records = <<>> \/ st.raised
                                       THEN 1 ELSE 0,
                                loaded |-> Len(records),
                                saved |-> Len(save_output(records, pandas)),
                                updated |-> st.updated]]
    /\ now' = now + 1
    /\ UNCHANGED <<engine, db, outfile>>

(***************************************************************************)
(* cmd_retry_failed.                                                       *)
(***************************************************************************)
RetryFailedKeepError(table, ts) ==
    {IF r.status = failed
     THEN [r EXCEPT !.status = pending, !.processing_time = NoTime,
                    !.updated_at = ts]
     ELSE r : r \in table}

\* DELETE FROM mineru_status WHERE status = 'failed', leaving the records to
\* be inserted again
RetryFailedDelete(table, ts) == {r \in table : r.status # failed}

RetryFailed(table, ts) ==
    {IF r.status = failed
     THEN [r EXCEPT !.status = pending, !.error_msg = NULL,
                    !.processing_time = NoTime, !.updated_at = ts]
     ELSE r : r \in table}

\* ret.left_open: the command returned without conn.close(), as the early
\* return for "nothing to retry" does
cmd_retry_failed ==
    /\ now < MaxClock
    /\ IF ~db
       THEN /\ last' = [pre |-> TRUE, op |-> "retry-failed",
                        ret |-> [rc |-> 1, reset |-> 0,
                                 left_open |-> FALSE]]
            /\ UNCHANGED reg
       ELSE LET failed_count == Cardinality({r \in reg : r.status = failed})
            IN  /\ reg' = IF failed_count = 0 THEN reg
                          ELSE RetryFailed(reg, now)
                /\ last' = [pre |-> FALSE, op |-> "retry-failed",
                            ret |-> [rc |-> 0, reset |-> failed_count,
                                     left_open |-> failed_count = 0]]
    /\ now' = now + 1
    /\ UNCHANGED <<engine, db, outfile>>

(***************************************************************************)
(* cmd_scan_outputs: the *_content_list.json files the glob yields.  An    *)
(* artifact is its directory, its file name (tokens, ".json" last) and     *)
(* whether the sibling <pmid>.md exists.                                   *)
(***************************************************************************)
\* json_path.stem.replace("_content_list", "")
RECURSIVE StemPmid(_)
StemPmid(name) ==
    IF Len(name) <= 1 THEN <<>>
    ELSE IF Head(name) = "_content_list" THEN StemPmid(Tail(name))
    ELSE <<Head(name)>> \o StemPmid(Tail(name))

\* UPDATE ... WHERE pmid = ? AND status != 'completed'
MarkCompletedAlways(table, pmid, json_path, md_path, ts) ==
    {IF r.pmid = pmid
     THEN [r EXCEPT !.status = completed, !.json_path = json_path,
                    !.md_path = md_path, !.updated_at = ts]
     ELSE r : r \in table}

MarkCompleted(table, pmid, json_path, md_path, ts) ==
    {IF r.pmid = pmid /\ r.status # completed
     THEN [r EXCEPT !.status = completed, !.json_path = json_path,
                    !.md_path = md_path, !.updated_at = ts]
     ELSE r : r \in table}

\* the loop: st = [table, updated]
RECURSIVE ScanOutputs(_, _, _)
ScanOutputs(st, json_files, ts) ==
    IF json_files = <<>> THEN st
    ELSE LET f == Head(json_files)
             pmid == StemPmid(f.name)
             md_path == IF f.md THEN f.dir \o pmid \o <<".md">> ELSE NULL
             hit == \E r \in st.table : r.pmid = pmid /\ r.status # completed
         IN  ScanOutputs(
                 [table |-> MarkCompleted(st.table, pmid, f.dir \o f.name,
                                          md_path, ts),
                  updated |-> IF hit THEN st.updated + 1 ELSE st.updated],
                 Tail(json_files), ts)

\* found: output_dir.exists()
cmd_scan_outputs(json_files, found) ==
    /\ now < MaxClock
    /\ IF ~db \/ ~found
       THEN /\ last' = [pre |-> TRUE, op |-> "scan-outputs",
                        ret |-> [rc |-> 1, updated |-> 0, seen |-> {}]]
            /\ UNCHANGED reg
       ELSE LET st == ScanOutputs([table |-> reg, updated |-> 0],
                                  json_files, now)
            IN  /\ reg' = st.table
                /\ last' = [pre |-> FALSE, op |-> "scan-outputs",
                            ret |-> [rc |-> 0, updated |-> st.updated,
                                     seen |-> {StemPmid(json_files[i].name) :
                                                  i \in 1..Len(json_files)}]]
    /\ now' = now + 1
    /\ UNCHANGED <<engine, db, outfile>>

(***************************************************************************)
(* cmd_update_sizes: gone is the set of paths for which getsize raises.    *)
(***************************************************************************)
getsize(pdf_path) == 2048

\* INSERT OR REPLACE of (pmid, pdf_path, file_size) instead of an UPDATE:
\* the other columns fall back to their defaults
UpdateSizesReplace(table, gone) ==
    {IF r.file_size = NoSize /\ r.pdf_path \notin gone
     THEN NewRecord(r.pmid, r.pdf_path, getsize(r.pdf_path), r.created_at)
     ELSE r : r \in table}

UpdateSizes(table, gone) ==
    {IF r.file_size = NoSize /\ r.pdf_path \notin gone
     THEN [r EXCEPT !.file_size = getsize(r.pdf_path)]
     ELSE r : r \in table}

cmd_update_sizes(gone) ==
    /\ now < MaxClock
    /\ IF ~db
       THEN /\ last' = [pre |-> TRUE, op |-> "update-sizes",
                        ret |-> [rc |-> 1, updated |-> 0]]
            /\ UNCHANGED reg
       ELSE /\ reg' = UpdateSizes(reg, gone)
            /\ last' = [pre |-> FALSE, op |-> "update-sizes",
                        ret |-> [rc |-> 0,
                                 updated |-> Cardinality({r \in reg :
                                                 /\ r.file_size = NoSize
                                                 /\ r.pdf_path \notin gone})]]
    /\ now' = now + 1
    /\ UNCHANGED <<engine, db, outfile>>

(***************************************************************************)
(* cmd_export_pending, cmd_export_failed: SELECT pmid, pdf_path ... WHERE  *)
(* status = ? ORDER BY pmid, written to the --output path.                 *)
(***************************************************************************)
\* the place of a token in VARCHAR order: digits sort before letters
TokenRank(t) ==
    CASE t = SP -> 0
      [] t = "100001" -> 1
      [] t = "100002" -> 2
      [] t = "999999" -> 3
      [] OTHER -> 4

\* a < b as strings
RECURSIVE TextLess(_, _)
TextLess(a, b) ==
    IF b = <<>> THEN FALSE
    ELSE IF a = <<>> THEN TRUE
    ELSE IF Head(a) # Head(b) THEN TokenRank(Head(a)) < TokenRank(Head(b))
    ELSE TextLess(Tail(a), Tail(b))

\* ORDER BY pmid over a set of rows (pmid is the primary key)
RECURSIVE OrderByPmid(_)
OrderByPmid(rows) ==
    IF rows = {} THEN <<>>
    ELSE LET first == CHOOSE r \in rows :
                          \A q \in rows : ~TextLess(q.pmid, r.pmid)
         IN  <<first>> \o OrderByPmid(rows \ {first})

\* fetchall() of the export query
SelectByStatus(table, status) ==
    OrderByPmid({[pmid |-> r.pmid, pdf_path |-> r.pdf_path] :
                    r \in {q \in table : q.status = status}})

\* the file at the output path after the export: open(output_path, "w")
\* is reached only when the query returned rows
ExportFile(file, selected) ==
    IF selected = <<>> THEN file
    ELSE [exists |-> TRUE, rows |-> selected]

\* ret.left_open: the command returned without conn.close(), as the early
\* return for an empty selection does
cmd_export_pending ==
    /\ now < MaxClock
    /\ IF ~db
       THEN /\ last' = [pre |-> TRUE, op |-> "export-pending",
                        ret |-> [rc |-> 1, exported |-> 0,
                                 left_open |-> FALSE]]
            /\ outfile' = outfile
       ELSE LET selected == SelectByStatus(reg, pending)
            IN  /\ outfile' = ExportFile(outfile, selected)
                /\ last' = [pre |-> FALSE, op |-> "export-pending",
                            ret |-> [rc |-> 0, exported |-> Len(selected),
                                     left_open |-> selected = <<>>]]
    /\ now' = now + 1
    /\ UNCHANGED <<reg, engine, db>>

cmd_export_failed ==
    /\ now < MaxClock
    /\ IF ~db
       THEN /\ last' = [pre |-> TRUE, op |-> "export-failed",
                        ret |-> [rc |-> 1, exported |-> 0,
                                 left_open |-> FALSE]]
            /\ outfile' = outfile
       ELSE LET selected == SelectByStatus(reg, failed)
            IN  /\ outfile' = ExportFile(outfile, selected)
                /\ last' = [pre |-> FALSE, op |-> "export-failed",
                            ret |-> [rc |-> 0, exported |-> Len(selected),
                                     left_open |-> selected = <<>>]]
    /\ now' = now + 1
    /\ UNCHANGED <<reg, engine, db>>

(***************************************************************************)
(* process_single_pdf: the result row of one item.  env is what the item   *)
(* meets: whether the PDF exists, whether the MinerU Python API is         *)
(* importable, how the extractor run ends, its stderr, which content-list  *)
(* artifact is on disk afterwards, whether a markdown file is beside it,   *)
(* and the seconds that passed.                                            *)
(***************************************************************************)
OutDir(pmid) == <<"/out/">> \o pmid \o <<"/">>

\* the artifact process_single_pdf finds: auto/ is looked at before
\* hybrid_auto/ (FoundJsonAssumed: the expected path, not looked for)
FoundJsonAssumed(pmid, env) ==
    OutDir(pmid) \o <<"auto/">> \o pmid \o <<"_content_list", ".json">>

FoundJson(pmid, env) ==
    CASE env.artifact = "auto" ->
            OutDir(pmid) \o <<"auto/">> \o pmid \o <<"_content_list", ".json">>
      [] env.artifact = "hybrid_auto" ->
            OutDir(pmid) \o <<"hybrid_auto/">> \o pmid
                \o <<"_content_list", ".json">>
      [] OTHER -> NULL

\* a failure branch that sets the status and the time and no message
FailedRowNoMessage(result, error_msg, processing_time) ==
    [result EXCEPT !.status = failed, !.processing_time = processing_time]

FailedRow(result, error_msg, processing_time) ==
    [result EXCEPT !.status = failed, !.error_msg = error_msg,
                   !.processing_time = processing_time]

\* The handlers are  except subprocess.TimeoutExpired  and then  except
\* Exception.  subprocess is imported inside the function, on the CLI path
\* only, so it is a local name that is unbound on the Python API path: an
\* exception of the extractor there makes the first except clause raise
\* UnboundLocalError, which leaves process_single_pdf.
Propagates(env) == env.exists /\ env.mineru /\ env.run = "exception"

\* the result returned when no exception leaves the function
process_single_pdf(pmid, pdf_path, env) ==
    LET result == [pmid |-> pmid, pdf_path |-> pdf_path, status |-> pending,
                   json_path |-> NULL, md_path |-> NULL,
                   processing_time |-> NoTime, error_msg |-> NULL]
        json_path == FoundJson(pmid, env)
    IN  IF ~env.exists
        THEN FailedRow(result, <<"PDF file not found">>, NoTime)
        ELSE IF ~env.mineru /\ env.run = "exception"
        THEN FailedRow(result, <<"RuntimeError: boom">>, env.elapsed)
        ELSE IF ~env.mineru /\ env.run = "timeout"
        THEN FailedRow(result, <<"Processing timeout (10 min)">>, env.elapsed)
        ELSE IF ~env.mineru /\ env.run = "nonzero"
        THEN FailedRow(result,
                       IF env.stderr # <<>> THEN env.stderr
                       ELSE <<"Unknown error">>,
                       env.elapsed)
        ELSE IF json_path # NULL
        THEN [result EXCEPT
                 !.status = completed, !.json_path = json_path,
                 !.md_path = IF env.md
                             THEN OutDir(pmid) \o <<env.artifact, "/">>
                                      \o pmid \o <<".md">>
                             ELSE NULL,
                 !.processing_time = env.elapsed]
        ELSE FailedRow(result, <<"No output files generated by MinerU">>,
                       env.elapsed)

\* str(float) as csv.DictWriter writes it
FloatText(x) ==
    CASE x = 12 -> <<"12.5">>
      [] x = 3 -> <<"3.0">>
      [] OTHER -> <<>>

\* save_results: the CSV row of a result; None is written as the empty cell
CsvCell(v) == IF v = NULL THEN <<>> ELSE v

CsvRow(result) ==
    [pmid |-> CsvCell(result.pmid), status |-> CsvCell(result.status),
     json_path |-> CsvCell(result.json_path),
     md_path |-> CsvCell(result.md_path),
     error_msg |-> CsvCell(result.error_msg),
     processing_time |-> FloatText(result.processing_time)]

(***************************************************************************)
(* Chunk execution: main() of process_pdfs_mineru.py run with --manifest.  *)
(***************************************************************************)
\* Path(pdf_path).stem: the file name without directory and extension
Stem(pdf_path) == SubSeq(pdf_path, 2, Len(pdf_path) - 1)

NoCount == 0 - 1

\* load_manifest: i counts the rows read, entries is what is kept so far
RECURSIVE LoadRows(_, _, _, _, _)
LoadRows(rows, i, entries, start_index, count) ==
    IF rows = <<>> THEN entries
    ELSE IF i < start_index
    THEN LoadRows(Tail(rows), i + 1, entries, start_index, count)
    ELSE IF count # NoCount /\ Len(entries) >= count THEN entries
    ELSE LET pmid == strip(Head(rows).pmid)
             pdf_path == strip(Head(rows).pdf_path)
         IN  IF pdf_path = <<>>
             THEN LoadRows(Tail(rows), i + 1, entries, start_index, count)
             ELSE LoadRows(Tail(rows), i + 1,
                      Append(entries,
                             [pmid |-> IF pmid # <<>> THEN pmid
                                       ELSE Stem(pdf_path),
                              pdf_path |-> pdf_path]),
                      start_index, count)

load_manifest(manifest, start_index, count) ==
    LoadRows(manifest, 0, <<>>, start_index, count)

\* the loop of main: st = [results, met, failed, skipped, attempted,
\* aborted]; envs[i] is what entry i meets (met collects it for each result),
\* skip the entries that --skip-existing passes over.  The progress line
\* formats result['processing_time'] with :.1f, which raises TypeError for
\* None.
RECURSIVE ProcessEntries(_, _, _, _, _)
ProcessEntries(st, entries, envs, skip, i) ==
    IF i > Len(entries) \/ st.aborted THEN st
    ELSE IF i \in skip
    THEN ProcessEntries([st EXCEPT !.skipped = @ + 1], entries, envs, skip,
                        i + 1)
    ELSE IF Propagates(envs[i])
    THEN [st EXCEPT !.attempted = @ + 1, !.aborted = TRUE]
    ELSE LET result == process_single_pdf(entries[i].pmid,
                                          entries[i].pdf_path, envs[i])
             counted == [st EXCEPT
                            !.results = Append(@, result),
                            !.met = Append(@, envs[i]),
                            !.attempted = @ + 1,
                            !.failed = IF result.status = completed
                                       THEN @ ELSE @ + 1]
         IN  IF result.processing_time = NoTime
             THEN [counted EXCEPT !.aborted = TRUE]
             ELSE ProcessEntries(counted, entries, envs, skip, i + 1)

\* save_results: the rows of the results file, in the order of the results
CsvRows(results) == [i \in 1..Len(results) |-> CsvRow(results[i])]

(***************************************************************************)
(* The inputs the commands are run with.                                   *)
(***************************************************************************)
SeqsUpTo(S, n) == UNION {[1..k -> S] : k \in 1..n}
DistinctSeqsUpTo(S, n) ==
    {q \in SeqsUpTo(S, n) : \A i, j \in 1..Len(q) : i # j => q[i] # q[j]}

IdA == <<"100001">>
IdB == <<"100002">>
PathA == <<"/in/a/", "100001", ".pdf">>
PathA2 == <<"/in/b/", "v2_", "100001", ".PDF">>
PathB == <<"/in/a/", "100002", ".pdf">>

ManifestRows ==
    {[pmid |-> IdA, pdf_path |-> PathA],
     [pmid |-> <<SP>> \o IdA \o <<SP>>, pdf_path |-> PathA2 \o <<SP>>],
     [pmid |-> IdB, pdf_path |-> PathB],
     [pmid |-> IdB, pdf_path |-> <<>>]}
Manifests == SeqsUpTo(ManifestRows, MaxRows)

PdfFiles ==
    {[root |-> <<"/in/a/">>, filename |-> <<"100001", ".pdf">>,
      size |-> getsize(PathA)],
     [root |-> <<"/in/b/">>, filename |-> <<"v2_", "100001", ".PDF">>,
      size |-> NoSize],
     [root |-> <<"/in/a/">>, filename |-> <<"100002", ".pdf">>,
      size |-> getsize(PathB)],
     [root |-> <<"/in/a/">>, filename |-> <<"notes", ".pdf">>,
      size |-> getsize(PathB)]}
Listings == DistinctSeqsUpTo(PdfFiles, MaxRows)

Artifacts ==
    {[dir |-> <<"/out/100001/auto/">>,
      name |-> <<"100001", "_content_list", ".json">>, md |-> TRUE],
     [dir |-> <<"/out/100001/hybrid_auto/">>,
      name |-> <<"100001", "_content_list", ".json">>, md |-> FALSE],
     [dir |-> <<"/out/100002/auto/">>,
      name |-> <<"100002", "_content_list", ".json">>, md |-> FALSE],
     [dir |-> <<"/out/999999/auto/">>,
      name |-> <<"999999", "_content_list", ".json">>, md |-> TRUE]}
OutputTrees == DistinctSeqsUpTo(Artifacts, MaxRows)

GoneSets == SUBSET {PathA, PathB}

\* what an item can meet during chunk execution
Envs ==
    {e \in [exists : BOOLEAN, mineru : BOOLEAN,
            run : {"ok", "nonzero", "timeout", "exception"},
            stderr : {<<>>, <<SP>>, <<"Traceback">>},
            artifact : {"auto", "hybrid_auto", "none"},
            md : BOOLEAN, elapsed : {12}] :
        /\ e.mineru => e.run \in {"ok", "exception"}
        /\ e.run # "nonzero" => e.stderr = <<>>
        /\ e.artifact = "none" => ~e.md}

\* the rows of the reports ingested here: rows that chunk execution wrote
\* for item 100001, and rows of reports that were written or edited by hand
\* (chunk execution writes no report once an item's PDF is missing)
ReportEnvs ==
    {e \in Envs :
        /\ ~e.mineru
        /\ \/ e.exists /\ e.run = "nonzero" /\ e.stderr = <<SP>>
                /\ e.artifact = "none"
           \/ e.exists /\ e.run = "ok" /\ e.artifact = "auto" /\ e.md}

ChunkRows == {CsvRow(process_single_pdf(IdA, PathA, e)) : e \in ReportEnvs}

EditedRows ==
    {[pmid |-> <<SP>> \o IdA, status |-> completed \o <<SP>>,
      json_path |-> <<>>, md_path |-> <<>>, error_msg |-> <<>>,
      processing_time |-> <<"n/a">>],
     [pmid |-> IdA, status |-> failed,
      json_path |-> <<>>, md_path |-> <<>>,
      error_msg |-> <<"PDF file not found">>, processing_time |-> <<>>]}

ReportRows == ChunkRows \cup EditedRows
Reports == SeqsUpTo(ReportRows, MaxRows)

(***************************************************************************)
(* The registry's commands, run one at a time against one registry file.   *)
(***************************************************************************)
\* pre: the command stopped at a precondition check ("Error: ... not found")
NoCommand == [pre |-> FALSE, op |-> "none", ret |-> [rc |-> 0]]

\* no file at the --output path
NoFile == [exists |-> FALSE, rows |-> <<>>]

\* nothing exists yet: no registry file, no exported manifest
Init ==
    /\ reg = {}
    /\ now = 0
    /\ last = NoCommand
    /\ engine \in Engines
    /\ db = FALSE
    /\ outfile = NoFile

\* a file or directory argument either names something that is there, with
\* its content, or nothing
Given(found, contents) == IF found THEN contents ELSE {<<>>}

Next ==
    \/ \E found \in BOOLEAN : \E manifest \in Given(found, Manifests) :
           cmd_init(manifest, found)
    \/ \E found \in BOOLEAN : \E files \in Given(found, Listings) :
           cmd_scan_pdfs(files, found)
    \/ \E found \in BOOLEAN : \E results \in Given(found, Reports) :
           cmd_update(results, found)
    \/ cmd_retry_failed
    \/ \E found \in BOOLEAN : \E json_files \in Given(found, OutputTrees) :
           cmd_scan_outputs(json_files, found)
    \/ \E gone \in GoneSets : cmd_update_sizes(gone)

Spec == Init /\ [][Next]_vars

(***************************************************************************)
(* generate_swarm: the pmid file is the sequence of its lines, a comment   *)
(* line starts with the token "#".  One chunk is written per output line.  *)
(* The script is one run over one pmid file and keeps nothing between      *)
(* runs.                                                                   *)
(***************************************************************************)
\* [line.strip() for line in f if line.strip() and not line.startswith('#')]
RECURSIVE ReadPmids(_)
ReadPmids(lines) ==
    IF lines = <<>> THEN <<>>
    ELSE LET line == Head(lines)
         IN  IF strip(line) # <<>> /\ ~(line # <<>> /\ Head(line) = "#")
             THEN <<strip(line)>> \o ReadPmids(Tail(lines))
             ELSE ReadPmids(Tail(lines))

Min(a, b) == IF a < b THEN a ELSE b

\* for i in range(0, len(pmids), chunk_size): pmids[i:i + chunk_size]
RECURSIVE ChunksFullOnly(_, _, _)
ChunksFullOnly(pmids, i, chunk_size) ==
    IF i + chunk_size > Len(pmids) THEN <<>>
    ELSE <<SubSeq(pmids, i + 1, i + chunk_size)>>
             \o ChunksFullOnly(pmids, i + chunk_size, chunk_size)

\* range(0, len(pmids) + 1, chunk_size): one slice too many, empty, when
\* len(pmids) is a multiple of chunk_size
RECURSIVE ChunksThroughEnd(_, _, _)
ChunksThroughEnd(pmids, i, chunk_size) ==
    IF i > Len(pmids) THEN <<>>
    ELSE <<SubSeq(pmids, i + 1, Min(i + chunk_size, Len(pmids)))>>
             \o ChunksThroughEnd(pmids, i + chunk_size, chunk_size)

RECURSIVE Chunks(_, _, _)
Chunks(pmids, i, chunk_size) ==
    IF i >= Len(pmids) THEN <<>>
    ELSE <<SubSeq(pmids, i + 1, Min(i + chunk_size, Len(pmids)))>>
             \o Chunks(pmids, i + chunk_size, chunk_size)

generate_swarm(lines, chunk_size) ==
    /\ last = NoCommand
    /\ LET pmids == ReadPmids(lines)
       IN  last' = [pre |-> FALSE, op |-> "generate_swarm",
                    ret |-> [rc |-> 0, pmids |-> pmids,
                             chunk_size |-> chunk_size,
                             written |-> Chunks(pmids, 0, chunk_size),
                             num_chunks |->
                                 (Len(pmids) + chunk_size - 1)
                                     \div chunk_size]]
    /\ now' = now + 1
    /\ UNCHANGED <<reg, engine, db, outfile>>

PmidLines ==
    {IdA, IdB, <<SP, "100003", SP>>, <<SP>>, <<"#", "done">>,
     <<SP, "#", "100004">>}
PmidFiles == {<<>>} \cup SeqsUpTo(PmidLines, MaxLines)

NextSwarm ==
    \E lines \in PmidFiles, chunk_size \in 1..MaxChunk :
        generate_swarm(lines, chunk_size)

SpecSwarm == Init /\ [][NextSwarm]_vars

(***************************************************************************)
(* One run of chunk execution over a manifest.  The script keeps nothing   *)
(* between runs; what it leaves is its exit code and the results file.     *)
(***************************************************************************)
\* the results of the loop of main over the entries of a window
load_results(manifest, start_index, count, envs, skip) ==
    ProcessEntries([results |-> <<>>, met |-> <<>>, failed |-> 0,
                    skipped |-> 0, attempted |-> 0, aborted |-> FALSE],
                   load_manifest(manifest, start_index, count),
                   envs, skip, 1).results

\* a chunk run that also writes its results into the registry
process_main_reporting(manifest, start_index, count, envs, skip) ==
    /\ LET entries == load_manifest(manifest, start_index, count)
           st == ProcessEntries([results |-> <<>>, met |-> <<>>,
                                 failed |-> 0,
                                 skipped |-> 0, attempted |-> 0,
                                 aborted |-> FALSE],
                                entries, envs, skip, 1)
           saved == entries # <<>> /\ ~st.aborted
       IN  last' = [pre |-> FALSE, op |-> "process",
                    ret |-> [rc |-> IF st.aborted \/ st.failed > 0
                                    THEN 1 ELSE 0,
                             manifest |-> manifest,
                             entries |-> entries,
                             skipped |-> st.skipped,
                             attempted |-> st.attempted,
                             failed |-> st.failed,
                             results |-> st.results,
                             met |-> st.met,
                             written |-> saved,
                             rows |-> IF saved THEN CsvRows(st.results)
                                      ELSE <<>>]]
    /\ now' = now + 1
    /\ reg' = IF db
              THEN UpdateRows([table |-> reg, updated |-> 0,
                               raised |-> FALSE],
                              CsvRows(load_results(manifest, start_index,
                                                   count, envs, skip)),
                              now, "null").table
              ELSE reg
    /\ UNCHANGED <<engine, db, outfile>>

\* main() with --manifest and --results-file: skip is empty unless
\* --skip-existing is given.  ret.manifest is the file the run was given.
\* An exception that leaves main ends the process
\* with exit code 1 before save_results is reached.
process_main(manifest, start_index, count, envs, skip) ==
    /\ LET entries == load_manifest(manifest, start_index, count)
           st == ProcessEntries([results |-> <<>>, met |-> <<>>,
                                 failed |-> 0,
                                 skipped |-> 0, attempted |-> 0,
                                 aborted |-> FALSE],
                                entries, envs, skip, 1)
           saved == entries # <<>> /\ ~st.aborted
       IN  last' = [pre |-> FALSE, op |-> "process",
                    ret |-> [rc |-> IF st.aborted \/ st.failed > 0
                                    THEN 1 ELSE 0,
                             manifest |-> manifest,
                             entries |-> entries,
                             skipped |-> st.skipped,
                             attempted |-> st.attempted,
                             failed |-> st.failed,
                             results |-> st.results,
                             met |-> st.met,
                             written |-> saved,
                             rows |-> IF saved THEN CsvRows(st.results)
                                      ELSE <<>>]]
    /\ now' = now + 1
    /\ UNCHANGED <<reg, engine, db, outfile>>

\* manifests of a chunk: a row may lack its id
ChunkManifestRows ==
    {[pmid |-> IdA, pdf_path |-> PathA],
     [pmid |-> <<>>, pdf_path |-> PathA2 \o <<SP>>],
     [pmid |-> IdB, pdf_path |-> <<>>]}
ChunkManifests == SeqsUpTo(ChunkManifestRows, MaxRows)

\* what the items of a chunk meet
ItemEnvs ==
    {e \in Envs :
        /\ e.stderr \in {<<>>, <<"Traceback">>}
        /\ \/ ~e.exists /\ ~e.mineru /\ e.run = "ok" /\ e.artifact = "none"
           \/ e.exists /\ e.mineru /\ e.run = "exception"
                /\ e.artifact = "none"
           \/ e.exists /\ ~e.mineru /\ e.run \in {"exception", "timeout"}
                /\ e.artifact = "none"
           \/ e.exists /\ ~e.mineru /\ e.run = "nonzero"
                /\ e.artifact = "none"
           \/ e.exists /\ e.run = "ok" /\ e.artifact \in {"none", "auto"}
                /\ (e.md <=> e.artifact = "auto")
           \/ e.exists /\ ~e.mineru /\ e.run = "ok"
                /\ e.artifact = "hybrid_auto" /\ ~e.md}

\* one run
NextChunk ==
    /\ last = NoCommand
    /\ \E manifest \in ChunkManifests, start_index \in 0..1,
          count \in {NoCount, 1} :
           LET n == Len(load_manifest(manifest, start_index, count))
           IN  \E envs \in [1..n -> ItemEnvs], skip \in SUBSET (1..n) :
                   process_main(manifest, start_index, count, envs, skip)

SpecChunk == Init /\ [][NextChunk]_vars

(***************************************************************************)
(* Chunk runs against a registry that holds records: the registry is       *)
(* initialized, chunks run (to their end or killed on the way), and their  *)
(* reports are ingested.                                                   *)
(***************************************************************************)
\* main() killed after k entries were attempted: nothing is saved; 137 is
\* the exit status of a killed process
process_main_killed(manifest, start_index, count, envs, k) ==
    /\ last' = [pre |-> FALSE, op |-> "process-killed",
                ret |-> [rc |-> 137,
                         results |-> load_results(manifest, start_index,
                                                  count, envs, {}),
                         attempted |-> k, written |-> FALSE]]
    /\ now' = now + 1
    /\ UNCHANGED <<reg, engine, db, outfile>>

\* what the items meet here: the extractor fails, writes its artifact, or
\* the PDF is missing
PipelineEnvs == ReportEnvs \cup {e \in ItemEnvs : ~e.exists /\ e.stderr = <<>>}

\* the results chunk execution hands to save_results: a run that reaches
\* save_results has a processing_time for every result
ChunkResultSet ==
    {process_single_pdf(pmid, PathA, e) :
        pmid \in {IdA, IdB}, e \in ReportEnvs}

\* the manifest the registry is initialized from and the chunks are run on
PipelineManifests ==
    {<<[pmid |-> IdA, pdf_path |-> PathA]>>,
     <<[pmid |-> IdA, pdf_path |-> PathA],
       [pmid |-> IdB, pdf_path |-> PathB]>>}

\* the reports of chunk runs over one item
PipelineReports == {CsvRows(<<result>>) : result \in ChunkResultSet}

NextPipeline ==
    \/ \E manifest \in PipelineManifests : cmd_init(manifest, TRUE)
    \/ /\ now < MaxClock
       /\ \E manifest \in PipelineManifests, start_index \in 0..1,
             count \in {NoCount, 1} :
              LET n == Len(load_manifest(manifest, start_index, count))
              IN  \E envs \in [1..n -> PipelineEnvs] :
                      process_main(manifest, start_index, count, envs, {})
    \/ /\ now < MaxClock
       /\ \E manifest \in PipelineManifests :
              LET n == Len(load_manifest(manifest, 0, NoCount))
              IN  \E k \in 1..n : \E envs \in [1..k -> ReportEnvs] :
                      process_main_killed(manifest, 0, k, envs, k)
    \/ \E results \in PipelineReports : cmd_update(results, TRUE)

SpecPipeline == Init /\ [][NextPipeline]_vars

(***************************************************************************)
(* Result ingestion by both scripts against a registry built from a        *)
(* manifest.  A results directory holds up to MaxFiles chunk files with    *)
(* MaxRows rows in all.                                                    *)
(***************************************************************************)
MaxFiles == 2

\* the rows of a report stored in consecutive files, cut after the rows
\* whose positions are in cuts
RECURSIVE SplitFrom(_, _, _)
SplitFrom(rows, cuts, start) ==
    IF start > Len(rows) THEN <<>>
    ELSE LET ahead == {c \in cuts : c >= start}
             stop == IF ahead = {} THEN Len(rows)
                     ELSE CHOOSE c \in ahead : \A d \in ahead : c <= d
         IN  <<SubSeq(rows, start, stop)>> \o SplitFrom(rows, cuts, stop + 1)

ResultDirs ==
    UNION {{SplitFrom(rows, cuts, 1) :
               cuts \in {c \in SUBSET (1..(Len(rows) - 1)) :
                            Cardinality(c) < MaxFiles}} :
           rows \in Reports}

NextIngest ==
    \/ \E manifest \in Manifests : cmd_init(manifest, TRUE)
    \/ \E results \in Reports : cmd_update(results, TRUE)
    \/ \E found \in BOOLEAN : \E files \in Given(found, ResultDirs) :
           \E pandas \in BOOLEAN : merge_main(files, found, pandas, TRUE)

SpecIngest == Init /\ [][NextIngest]_vars

(***************************************************************************)
(* Ingestion of reports that did not come from chunk execution, and an     *)
(* ingestion that does not reach its end.  A column that the file lacks    *)
(* reads as the empty cell: normalized.get(column, "").                    *)
(***************************************************************************)
LooseRows ==
    ChunkRows \cup
    {[pmid |-> IdA, status |-> <<>>, json_path |-> <<>>, md_path |-> <<>>,
      error_msg |-> <<>>, processing_time |-> <<"3.0">>],
     [pmid |-> IdB, status |-> <<"done">>, json_path |-> <<>>,
      md_path |-> <<>>, error_msg |-> <<>>, processing_time |-> <<"3.0">>],
     [pmid |-> <<SP>>, status |-> failed, json_path |-> <<>>,
      md_path |-> <<>>, error_msg |-> <<"Traceback">>,
      processing_time |-> <<"3.0">>]}
LooseReports == SeqsUpTo(LooseRows, MaxRows)

\* what the table holds when the process is killed after k rows of
\* cmd_update's loop: no transaction is opened, so each UPDATE that has
\* returned is committed
UpdateRowsKilled(table, results, k, ts, eng) ==
    UpdateRows([table |-> table, updated |-> 0, raised |-> FALSE],
               SubSeq(results, 1, k), ts, eng).table

\* cmd_update, the process killed inside the loop; 137 is the exit status
\* of a killed process
cmd_update_killed(results, k) ==
    /\ now < MaxClock
    /\ db
    /\ reg' = UpdateRowsKilled(reg, results, k, now, engine)
    /\ last' = [pre |-> FALSE, op |-> "update-killed",
                ret |-> [rc |-> 137, updated |-> k]]
    /\ now' = now + 1
    /\ UNCHANGED <<engine, db, outfile>>

NextReports ==
    \/ \E manifest \in Manifests : cmd_init(manifest, TRUE)
    \/ \E results \in LooseReports : cmd_update(results, TRUE)
    \/ \E results \in LooseReports : \E k \in 0..(Len(results) - 1) :
           cmd_update_killed(results, k)

SpecReports == Init /\ [][NextReports]_vars

(***************************************************************************)
(* Export of manifests for reprocessing: a registry is initialized, its    *)
(* records change status as reports arrive, and pending or failed items    *)
(* are exported to one output path.                                        *)
(***************************************************************************)
NextExport ==
    \/ \E manifest \in Manifests : cmd_init(manifest, TRUE)
    \/ \E results \in Reports : cmd_update(results, TRUE)
    \/ cmd_export_pending
    \/ cmd_export_failed

SpecExport == Init /\ [][NextExport]_vars

(***************************************************************************)
(* Reports in the columnar format.  save_results writes the results of a   *)
(* chunk with DataFrame.to_parquet; cmd_update reads them back with        *)
(* read_parquet(...).to_dict("records"): a value that was None comes back  *)
(* as a missing value (None or NaN), not as a string, and processing_time  *)
(* as a float.                                                             *)
(***************************************************************************)
\* the record read back for one result
ParquetRecord(result) ==
    [pmid |-> result.pmid, status |-> result.status,
     json_path |-> result.json_path, md_path |-> result.md_path,
     error_msg |-> result.error_msg,
     processing_time |-> result.processing_time]

ParquetRecords(results) ==
    [i \in 1..Len(results) |-> ParquetRecord(results[i])]

\* normalized.get(key, "").strip() raises AttributeError when the value is
\* missing: the key is there, so the default is not used
StripRaises(record) ==
    NULL \in {record.pmid, record.status, record.json_path, record.md_path,
              record.error_msg}

\* cmd_update's loop over the records of a parquet file: st = [table,
\* updated, raised]; each UPDATE that has run stays (no transaction is open)
RECURSIVE UpdateRecords(_, _, _)
UpdateRecords(st, records, ts) ==
    IF records = <<>> \/ st.raised THEN st
    ELSE LET record == Head(records)
         IN  IF StripRaises(record) THEN [st EXCEPT !.raised = TRUE]
             ELSE IF strip(record.pmid) = <<>>
             THEN UpdateRecords(st, Tail(records), ts)
             ELSE UpdateRecords(
                      [table |-> UpdateStatus(st.table, strip(record.pmid),
                                     strip(record.status),
                                     StripOrNone(record.json_path),
                                     StripOrNone(record.md_path),
                                     StripOrNone(record.error_msg),
                                     record.processing_time, ts),
                       updated |-> st.updated + 1,
                       raised |-> FALSE],
                      Tail(records), ts)

\* cmd_update with a results path ending in .parquet.  found:
\* results_path.exists(); pandas: import pandas succeeds.  ret.results is
\* what save_results was given when it wrote the file.
cmd_update_parquet(results, found, pandas) ==
    /\ now < MaxClock
    /\ IF ~db \/ ~found
       THEN /\ last' = [pre |-> TRUE, op |-> "update-parquet",
                        ret |-> [rc |-> 1, updated |-> 0, read |-> FALSE,
                                 results |-> <<>>]]
            /\ reg' = reg
       ELSE IF ~pandas
       THEN /\ last' = [pre |-> FALSE, op |-> "update-parquet",
                        ret |-> [rc |-> 1, updated |-> 0, read |-> FALSE,
                                 results |-> <<>>]]
            /\ reg' = reg
       ELSE LET st == UpdateRecords([table |-> reg, updated |-> 0,
                                     raised |-> FALSE],
                                    ParquetRecords(results), now)
            IN  /\ reg' = st.table
                /\ last' = [pre |-> FALSE, op |-> "update-parquet",
                            ret |-> [rc |-> IF st.raised THEN 1 ELSE 0,
                                     updated |-> st.updated, read |-> TRUE,
                                     results |-> results]]
    /\ now' = now + 1
    /\ UNCHANGED <<engine, db, outfile>>

ChunkResults == SeqsUpTo(ChunkResultSet, MaxRows)

NextFormats ==
    \/ \E manifest \in Manifests : cmd_init(manifest, TRUE)
    \/ \E results \in ChunkResults : cmd_update(CsvRows(results), TRUE)
    \/ \E found, pandas \in BOOLEAN :
           \E results \in Given(found, ChunkResults) :
               cmd_update_parquet(results, found, pandas)

SpecFormats == Init /\ [][NextFormats]_vars

(***************************************************************************)
(* The life of a registry under all the commands that open it: the ones of *)
(* mineru_registry.py and the merge script run with --update-registry.     *)
(***************************************************************************)
\* result directories holding one report of one row
OneRowDirs == {<<<<row>>>> : row \in ReportRows}

NextLifetime ==
    \/ \E manifest \in Manifests : cmd_init(manifest, TRUE)
    \/ \E files \in Listings : cmd_scan_pdfs(files, TRUE)
    \/ \E results \in Reports : cmd_update(results, TRUE)
    \/ \E files \in OneRowDirs : \E pandas \in BOOLEAN :
           merge_main(files, TRUE, pandas, TRUE)
    \/ cmd_retry_failed
    \/ \E json_files \in OutputTrees : cmd_scan_outputs(json_files, TRUE)
    \/ \E gone \in GoneSets : cmd_update_sizes(gone)
    \/ cmd_export_pending
    \/ cmd_export_failed

SpecLifetime == Init /\ [][NextLifetime]_vars

(***************************************************************************)
(* Reports as files: a header line of column names and data rows of cells. *)
(* csv.DictReader keys each row's cells by the header's names exactly as   *)
(* they are written.  Every data row has as many cells as the header has   *)
(* names.  A row is [keys, values].                                        *)
(***************************************************************************)
\* str.lower() on a token of a column name
key_lower(t) ==
    CASE t = "PMID" -> "pmid"
      [] t = "Status" -> "status"
      [] OTHER -> t

\* list(csv.DictReader(f))
DictReader(report) ==
    [i \in 1..Len(report.rows) |->
        [keys |-> report.header, values |-> report.rows[i]]]

\* {k.lower().strip(): v for k, v in row.items()}
normalized(row) ==
    [keys |-> [i \in 1..Len(row.keys) |->
                  strip([j \in 1..Len(row.keys[i]) |->
                            key_lower(row.keys[i][j])])],
     values |-> row.values]

\* dict.get(key, default); of two columns of one name the later one stays
get(row, key, default) ==
    LET hits == {i \in 1..Len(row.keys) : row.keys[i] = key}
    IN  IF hits = {} THEN default
        ELSE row.values[CHOOSE i \in hits : \A j \in hits : j <= i]

\* the six values a loop reads from one row.  get("processing_time") has
\* no default: an absent column gives None, which is bound as NULL
RowValues(row) ==
    [pmid |-> get(row, <<"pmid">>, <<>>),
     status |-> get(row, <<"status">>, <<>>),
     json_path |-> get(row, <<"json_path">>, <<>>),
     md_path |-> get(row, <<"md_path">>, <<>>),
     error_msg |-> get(row, <<"error_msg">>, <<>>),
     processing_time |-> get(row, <<"processing_time">>, NULL)]

\* the rows as cmd_update's loop sees them: keys normalized
UpdateResults(report) ==
    [i \in 1..Len(report.rows) |->
        RowValues(normalized(DictReader(report)[i]))]

\* the rows as update_registry's loop sees them: keys as written
MergeRecords(report) ==
    [i \in 1..Len(report.rows) |-> RowValues(DictReader(report)[i])]

\* cmd_update on a CSV report.  found: results_path.exists()
cmd_update_csv(report, found) ==
    /\ now < MaxClock
    /\ IF ~db \/ ~found
       THEN /\ last' = [pre |-> TRUE, op |-> "update-csv",
                        ret |-> [rc |-> 1, updated |-> 0,
                                 report |-> report]]
            /\ reg' = reg
       ELSE LET st == UpdateRows([table |-> reg, updated |-> 0,
                                  raised |-> FALSE],
                                 UpdateResults(report), now, engine)
            IN  /\ reg' = st.table
                /\ last' = [pre |-> FALSE, op |-> "update-csv",
                            ret |-> [rc |-> IF st.raised THEN 1 ELSE 0,
                                     updated |-> st.updated,
                                     report |-> report]]
    /\ now' = now + 1
    /\ UNCHANGED <<engine, db, outfile>>

\* main() of the merge script with --update-registry on a directory that
\* holds one CSV report.  found: args.input_dir.exists().  save_output
\* deduplicates with pandas only when the frame has a column "pmid".
merge_main_csv(report, found, pandas) ==
    /\ now < MaxClock
    /\ LET records == IF found THEN MergeRecords(report) ELSE <<>>
           st == IF db /\ records # <<>>
                 THEN update_registry(reg, records, now, engine)
                 ELSE [table |-> reg, updated |-> 0, raised |-> FALSE]
           saved == IF pandas /\ \A i \in 1..Len(report.header) :
                                     report.header[i] # <<"pmid">>
                    THEN records
                    ELSE save_output(records, pandas)
       IN  /\ reg' = st.table
           /\ last' = [pre |-> ~found, op |-> "merge-csv",
                       ret |-> [rc |-> IF records = <<>> \/ st.raised
                                       THEN 1 ELSE 0,
                                loaded |-> Len(records),
                                saved |-> Len(saved),
                                updated |-> st.updated,
                                report |-> report]]
    /\ now' = now + 1
    /\ UNCHANGED <<engine, db, outfile>>

\* the header save_results writes, and ones that differ from it in letter
\* case or surrounding whitespace
Headers ==
    {<<p, s, <<"json_path">>, <<"md_path">>, <<"error_msg">>,
       <<"processing_time">>>> :
        p \in {<<"pmid">>, <<"PMID">>, <<SP, "pmid">>},
        s \in {<<"status">>, <<"Status">>}}

Cells(row) ==
    <<row.pmid, row.status, row.json_path, row.md_path, row.error_msg,
      row.processing_time>>

HeaderReports ==
    {[header |-> h, rows |-> [i \in 1..Len(rows) |-> Cells(rows[i])]] :
        h \in Headers, rows \in Reports}

NoReport == [header |-> <<>>, rows |-> <<>>]

\* the manifests a registry is initialized from: the reports are about
\* 100001, which the last one does not register
HeaderManifests ==
    PipelineManifests \cup {<<[pmid |-> IdB, pdf_path |-> PathB]>>}

NextHeaders ==
    \/ \E manifest \in HeaderManifests : cmd_init(manifest, TRUE)
    \/ \E found \in BOOLEAN :
           \E report \in Given(found, HeaderReports) :
               cmd_update_csv(IF found THEN report ELSE NoReport, found)
    \/ \E found, pandas \in BOOLEAN :
           \E report \in Given(found, HeaderReports) :
               merge_main_csv(IF found THEN report ELSE NoReport, found,
                              pandas)

SpecHeaders == Init /\ [][NextHeaders]_vars

(***************************************************************************)
(* cmd_export_by_size.  --min-size and --max-size are floats in MB; a      *)
(* bound is held here in thousandths of a MB, NoBound when the option is   *)
(* not given (argparse leaves None).                                       *)
(***************************************************************************)
NoBound == 0 - 1

\* int(args.max_size * 1024 * 1024)
to_bytes(size) == (size * 1024 * 1024) \div 1000

\* if args.max_size:  is false for None and for 0.0
truthy(size) == size # NoBound /\ size # 0

\* fetchall() of the size-filtered query; a comparison with a NULL
\* file_size is not true
SelectBySize(table, min_size, max_size) ==
    OrderByPmid({[pmid |-> r.pmid, pdf_path |-> r.pdf_path] :
                    r \in {q \in table :
                              /\ q.status = pending \/ q.status = failed
                              /\ truthy(max_size) =>
                                     /\ q.file_size # NoSize
                                     /\ q.file_size <= to_bytes(max_size)
                              /\ truthy(min_size) =>
                                     /\ q.file_size # NoSize
                                     /\ q.file_size >= to_bytes(min_size)
                              /\ q.file_size # NoSize}})

\* ret.entries: the pairs this run wrote to the output path
cmd_export_by_size(min_size, max_size) ==
    /\ now < MaxClock
    /\ IF ~db
       THEN /\ last' = [pre |-> TRUE, op |-> "export-by-size",
                        ret |-> [rc |-> 1, exported |-> 0,
                                 left_open |-> FALSE, entries |-> <<>>,
                                 min_size |-> min_size,
                                 max_size |-> max_size]]
            /\ outfile' = outfile
       ELSE LET entries == SelectBySize(reg, min_size, max_size)
            IN  /\ outfile' = ExportFile(outfile, entries)
                /\ last' = [pre |-> FALSE, op |-> "export-by-size",
                            ret |-> [rc |-> 0, exported |-> Len(entries),
                                     left_open |-> entries = <<>>,
                                     entries |-> entries,
                                     min_size |-> min_size,
                                     max_size |-> max_size]]
    /\ now' = now + 1
    /\ UNCHANGED <<reg, engine, db>>

\* bounds of 0, 0.001, 0.002 and 0.003 MB around the size of the files
SizeBounds == {NoBound} \cup 0..3

NextSizes ==
    \/ \E files \in Listings : cmd_scan_pdfs(files, TRUE)
    \/ \E results \in PipelineReports : cmd_update(results, TRUE)
    \/ \E gone \in GoneSets : cmd_update_sizes(gone)
    \/ \E min_size, max_size \in SizeBounds :
           cmd_export_by_size(min_size, max_size)

SpecSizes == Init /\ [][NextSizes]_vars

(***************************************************************************)
(* Properties.                                                             *)
(***************************************************************************)
UniquePmids(table) == \A r1, r2 \in table : r1.pmid = r2.pmid => r1 = r2

\* the record of pmid in table (there is one)
RecordOf(table, pmid) == CHOOSE r \in table : r.pmid = pmid

Max(S) == CHOOSE x \in S : \A y \in S : y <= x
MinOf(S) == CHOOSE x \in S : \A y \in S : x <= y

\* the first row of a manifest, the first file of a listing, with an id
C1_FirstManifestRow(manifest, pmid) ==
    manifest[MinOf({i \in 1..Len(manifest) :
                       /\ strip(manifest[i].pmid) = pmid
                       /\ strip(manifest[i].pdf_path) # <<>>})]

C1_FirstFile(files, pmid) ==
    files[MinOf({i \in 1..Len(files) : pmid_pattern(files[i].filename) = pmid})]

\* C1: inserting an id that already exists (by manifest import or by input
\* discovery, also twice within one manifest or one scan) is a no-op: every
\* record that existed is still there unchanged, there is one record per
\* id, and a record created by the command carries the path (and size) of
\* the first row or file that brought its id.
C1_DuplicateInsertIsNoOp ==
    /\ \A manifest \in Manifests :
          LET t == InitRows(reg, manifest, now)
          IN  /\ reg \subseteq t
              /\ UniquePmids(t)
              /\ \A r \in t \ reg :
                    r = NewRecord(r.pmid,
                            strip(C1_FirstManifestRow(manifest, r.pmid).pdf_path),
                            NoSize, now)
    /\ \A files \in Listings :
          LET t == ScanPdfs(reg, files, now).table
          IN  /\ reg \subseteq t
              /\ UniquePmids(t)
              /\ \A r \in t \ reg :
                    LET f == C1_FirstFile(files, r.pmid)
                    IN  r = NewRecord(r.pmid, f.root \o f.filename, f.size, now)

\* a scan met an id that was registered before and has been completed since
C1_Witness ==
    /\ last.op = "scan-pdfs"
    /\ last.ret.skipped > 0
    /\ \E r \in reg : r.status = completed /\ r.created_at < r.updated_at

\* C2: scan-pdfs run twice over the same unchanged directory leaves the
\* records that one run leaves, and the second run adds nothing.
C2_ScanTwiceIsScanOnce ==
    \A files \in Listings :
        LET first == ScanPdfs(reg, files, now)
            second == ScanPdfs(first.table, files, now + 1)
        IN  /\ second.table = first.table
            /\ second.added = 0

\* a scan that found only registered ids, two of them
C2_Witness ==
    /\ last.op = "scan-pdfs"
    /\ last.ret.added = 0
    /\ last.ret.skipped >= 2
    /\ reg # {}

\* what both ingestion paths leave in the registry
IngestByUpdate(table, results, ts) ==
    UpdateRows([table |-> table, updated |-> 0, raised |-> FALSE],
               results, ts, engine)

IngestByMerge(table, files, ts) ==
    update_registry(table, load_csv_files(files), ts, engine)

EraseUpdatedAt(table) == {[r EXCEPT !.updated_at = 0] : r \in table}

\* C3 as stated: the same report applied twice leaves the registry that
\* one application leaves, in every field.
C3_TwiceEqualsOnce ==
    /\ \A results \in Reports :
          LET once == IngestByUpdate(reg, results, now)
          IN  IngestByUpdate(once.table, results, now + 1).table = once.table
    /\ \A files \in ResultDirs :
          LET once == IngestByMerge(reg, files, now)
          IN  IngestByMerge(once.table, files, now + 1).table = once.table

\* C3 as amended: the same report applied twice (by update or by merge
\* --update-registry) leaves the registry that one application leaves in
\* every field except updated_at.
C3_TwiceEqualsOnceButUpdatedAt ==
    /\ \A results \in Reports :
          LET once == IngestByUpdate(reg, results, now)
              twice == IngestByUpdate(once.table, results, now + 1)
          IN  /\ EraseUpdatedAt(twice.table) = EraseUpdatedAt(once.table)
              /\ twice.raised = once.raised
    /\ \A files \in ResultDirs :
          LET once == IngestByMerge(reg, files, now)
              twice == IngestByMerge(once.table, files, now + 1)
          IN  /\ EraseUpdatedAt(twice.table) = EraseUpdatedAt(once.table)
              /\ twice.raised = once.raised

\* a report has been applied to a record that an earlier command had
\* already given a result
C3_Witness ==
    /\ last.op \in {"update", "merge"}
    /\ \E r \in reg :
          /\ r.updated_at = now - 1
          /\ r.created_at + 1 < r.updated_at
          /\ r.status # pending

\* the ids that the rows of a report name
C4_RowIds(rows) == {strip(rows[i].pmid) : i \in 1..Len(rows)}

C4_Frame(table, after, rows) ==
    /\ Pmids(after) = Pmids(table)
    /\ \A r \in table : r.pmid \notin C4_RowIds(rows) => r \in after
    /\ C4_RowIds(rows) \cap Pmids(table) = {} => after = table

\* C4: rows whose id is not in the registry create no record and change no
\* record: ingestion leaves the set of ids as it was, changes no record
\* whose id no row names, and changes nothing at all when no row names a
\* registered id.
C4_AbsentIdIsNoOp ==
    /\ \A results \in Reports :
          C4_Frame(reg, IngestByUpdate(reg, results, now).table, results)
    /\ \A files \in ResultDirs :
          C4_Frame(reg, IngestByMerge(reg, files, now).table,
                   load_csv_files(files))

\* an update ran over rows none of which named a registered id
C4_Witness ==
    /\ last.op = "update"
    /\ last.ret.rc = 0
    /\ last.ret.updated > 0
    /\ reg # {}
    /\ \A r \in reg : r.updated_at = r.created_at /\ r.status = pending

\* the last row, in ingestion order (files in sorted order, rows in file
\* order), whose id cell is one of cells
C5_LastRow(files, cells) ==
    LET f == Max({i \in 1..Len(files) :
                     \E k \in 1..Len(files[i]) : files[i][k].pmid \in cells})
        k == Max({j \in 1..Len(files[f]) : files[f][j].pmid \in cells})
    IN  files[f][k]

C5_Cells(files) ==
    UNION {{files[i][k].pmid : k \in 1..Len(files[i])} : i \in 1..Len(files)}

CeilDiv(n, k) == CHOOSE c \in 0..n : c * k >= n /\ (c = 0 \/ (c - 1) * k < n)

RECURSIVE Flatten(_)
Flatten(chunks) ==
    IF chunks = <<>> THEN <<>> ELSE Head(chunks) \o Flatten(Tail(chunks))

\* C6: for n ids and chunk size k > 0 the planner writes ceil(n/k) chunks,
\* their concatenation in the order written is the input sequence, and the
\* chunk count it prints is the number of chunk lines it wrote.
C6_ChunksCoverInput ==
    last.op = "generate_swarm" =>
        /\ Len(last.ret.written)
               = CeilDiv(Len(last.ret.pmids), last.ret.chunk_size)
        /\ Flatten(last.ret.written) = last.ret.pmids
        /\ last.ret.num_chunks = Len(last.ret.written)

\* a plan whose last chunk is short
C6_Witness ==
    /\ last.op = "generate_swarm"
    /\ Len(last.ret.written) >= 2
    /\ Len(last.ret.written[Len(last.ret.written)]) < last.ret.chunk_size

\* C7: after retry-failed every record that was failed is pending with
\* error_msg and processing_time NULL, every record that was not failed is
\* unchanged in every field, and no record is added.
C7_RetryResetsOnlyFailed ==
    [][last'.op = "retry-failed" /\ now' # now =>
          /\ Pmids(reg') = Pmids(reg)
          /\ UniquePmids(reg')
          /\ \A r \in reg :
                IF r.status = failed
                THEN LET n == RecordOf(reg', r.pmid)
                     IN  /\ n.status = pending
                         /\ n.error_msg = NULL
                         /\ n.processing_time = NoTime
                ELSE r \in reg']_vars

\* retry-failed reset a record beside one that no command had touched
C7_Witness ==
    /\ last.op = "retry-failed"
    /\ last.ret.reset > 0
    /\ \E r \in reg : r.status = pending /\ r.updated_at = now - 1
    /\ \E r \in reg : r.updated_at = r.created_at

\* C8: scan-outputs leaves updated_at, json_path and md_path of every
\* record that is completed as they are, whatever artifacts it finds.
C8_ScanOutputsKeepsCompleted ==
    [][last'.op = "scan-outputs" /\ now' # now =>
          \A r \in reg :
              r.status = completed =>
                  \E n \in reg' :
                      /\ n.pmid = r.pmid
                      /\ n.updated_at = r.updated_at
                      /\ n.json_path = r.json_path
                      /\ n.md_path = r.md_path]_vars

\* scan-outputs found an artifact of a record completed by an earlier command
C8_Witness ==
    /\ last.op = "scan-outputs"
    /\ \E r \in reg :
          /\ r.status = completed
          /\ r.pmid \in last.ret.seen
          /\ r.updated_at < now - 1

\* C9: every completed record has a json_path.
C9_CompletedHasJsonPath ==
    \A r \in reg : r.status = completed => r.json_path # NULL

\* C10: every failed record has an error_msg.
C10_FailedHasErrorMsg ==
    \A r \in reg : r.status = failed => r.error_msg # NULL

\* C11: every step that moves a record from failed to another status
\* (retry-failed, result ingestion, scan-outputs) leaves its error_msg NULL.
C11_LeavingFailedClearsError ==
    [][\A r \in reg :
          r.status = failed =>
              \A n \in reg' :
                  n.pmid = r.pmid /\ n.status # failed =>
                      n.error_msg = NULL]_vars

\* C12: every record's status is one of pending, completed, failed,
\* whatever report rows have been ingested.
C12_StatusIsEnum ==
    \A r \in reg : r.status \in {pending, completed, failed}

\* C14: when the process dies inside an ingestion, the registry holds all of
\* the batch's row changes or none of them.
C14_BatchAllOrNone ==
    \A results \in LooseReports :
        \A k \in 0..(Len(results) - 1) :
            UpdateRowsKilled(reg, results, k, now, engine)
                \in {reg, UpdateRowsKilled(reg, results, Len(results),
                                           now, engine)}

\* the two steps of C13 as functions of the table
C13_Apply(table, row, ts) == IngestByUpdate(table, <<row>>, ts).table

C13_Reconcile(table, tree, ts) ==
    ScanOutputs([table |-> table, updated |-> 0], tree, ts).table

\* the fields C13 compares: all but updated_at
C13_Fields(table) == EraseUpdatedAt(table)

\* C13: for a pending record, applying a completed result row of a chunk and
\* running scan-outputs over a tree that holds an artifact of the item end
\* in the same record in both orders (status completed, the same paths,
\* error and time), and either step done twice leaves what it leaves done
\* once.
C13_ApplyAndReconcileCommute ==
    \A r \in reg :
        r.status = pending =>
            \A row \in {w \in ChunkRows :
                           strip(w.pmid) = r.pmid /\ RowStatus(w) = completed} :
                \A tree \in {t \in OutputTrees :
                                \E i \in 1..Len(t) :
                                    StemPmid(t[i].name) = r.pmid} :
                    LET applied == C13_Apply(reg, row, now)
                        reconciled == C13_Reconcile(reg, tree, now)
                        ab == C13_Reconcile(applied, tree, now + 1)
                        ba == C13_Apply(reconciled, row, now + 1)
                    IN  /\ C13_Fields(ab) = C13_Fields(ba)
                        /\ RecordOf(ab, r.pmid).status = completed
                        /\ RecordOf(ab, r.pmid).json_path
                               = StripOrNone(row.json_path)
                        /\ RecordOf(reconciled, r.pmid).status = completed
                        /\ C13_Reconcile(reconciled, tree, now + 1)
                               = reconciled
                        /\ C13_Fields(C13_Apply(applied, row, now + 1))
                               = C13_Fields(applied)

\* a chunk's completed row was applied to a record registered by the command
\* before, and then scan-outputs met the item's artifact
C13_Witness ==
    /\ last.op = "scan-outputs"
    /\ last.ret.rc = 0
    /\ \E r \in reg :
          /\ r.pmid \in last.ret.seen
          /\ r.status = completed
          /\ r.processing_time = 12
          /\ r.updated_at = now - 2
          /\ r.created_at = r.updated_at - 1

\* C15: a run of chunk execution attempts every entry it does not skip and
\* writes a results file with one row per attempted entry, whatever the
\* items meet.
C15_FailedItemDoesNotAbort ==
    last.op = "process" =>
        /\ last.ret.attempted + last.ret.skipped = Len(last.ret.entries)
        /\ last.ret.entries # <<>> =>
               /\ last.ret.written
               /\ Len(last.ret.rows) = last.ret.attempted

\* C16: process_single_pdf reports completed only when a content-list
\* artifact is on disk after the extractor call, with that artifact as
\* json_path; an extractor call that ends well with no artifact on disk is
\* reported failed.
C16_CompletedOnlyWithArtifact ==
    last.op = "process" =>
        \A i \in 1..Len(last.ret.results) :
            LET result == last.ret.results[i]
                env == last.ret.met[i]
            IN  /\ result.status \in {completed, failed}
                /\ result.status = completed =>
                       /\ env.artifact # "none"
                       /\ result.json_path # NULL
                       /\ result.json_path
                              = OutDir(result.pmid)
                                    \o <<IF env.artifact = "auto"
                                         THEN "auto/" ELSE "hybrid_auto/">>
                                    \o result.pmid
                                    \o <<"_content_list", ".json">>
                /\ env.exists /\ env.run = "ok" /\ env.artifact = "none" =>
                       /\ result.status = failed
                       /\ result.json_path = NULL

\* a run that reported one item completed and one failed for lack of output
C16_Witness ==
    /\ last.op = "process"
    /\ last.ret.written
    /\ \E i, j \in 1..Len(last.ret.rows) :
          /\ last.ret.rows[i].status = completed
          /\ last.ret.rows[i].json_path # <<>>
          /\ last.ret.rows[j].status = failed
          /\ last.ret.rows[j].error_msg
                 = <<"No output files generated by MinerU">>

\* C17: merge with --update-registry exits with code 1 when the registry
\* file is missing (as every command does whose precondition fails).
C17_MergeWithoutRegistryExitsOne ==
    last.op = "merge" /\ ~db => last.ret.rc = 1

\* C18: a registry command that stops at a failed precondition (a missing
\* registry, manifest, report or directory) changes no record and creates no
\* registry file.
C18_FailedPreconditionMutatesNothing ==
    [][/\ last'.pre
       /\ last'.op \in {"init", "scan-pdfs", "update", "retry-failed",
                        "scan-outputs", "update-sizes"}
       => reg' = reg /\ db' = db]_vars

\* init or scan-pdfs has just stopped at its precondition with no registry
\* file on disk, and none is there afterwards
C18_Witness ==
    /\ last.pre
    /\ last.op \in {"init", "scan-pdfs"}
    /\ last.ret.rc = 1
    /\ ~db
    /\ reg = {}

\* C19: every work item of a chunk run comes from a manifest row that has
\* both an id and a path; a row lacking either produces no work item.
C19_RowLackingIdOrPathIsSkipped ==
    last.op = "process" =>
        \A k \in 1..Len(last.ret.entries) :
            \E i \in 1..Len(last.ret.manifest) :
                /\ strip(last.ret.manifest[i].pmid) # <<>>
                /\ strip(last.ret.manifest[i].pdf_path) # <<>>
                /\ last.ret.entries[k].pmid = strip(last.ret.manifest[i].pmid)
                /\ last.ret.entries[k].pdf_path =
                       strip(last.ret.manifest[i].pdf_path)

\* C20: after export-pending (export-failed) has returned 0, the file at
\* the output path lists exactly the (pmid, pdf_path) pairs of the pending
\* (failed) records, each once, in ascending pmid order; this includes the
\* case of an empty selection with a file already at the path.
C20_ExportListsExactlyTheStatus ==
    /\ last.op = "export-pending" /\ last.ret.rc = 0 /\ outfile.exists =>
           outfile.rows = SelectByStatus(reg, pending)
    /\ last.op = "export-failed" /\ last.ret.rc = 0 /\ outfile.exists =>
           outfile.rows = SelectByStatus(reg, failed)

\* C21: a step that changes a record stamps it with the time of the step
\* (updated_at), and never changes its created_at.
C21_MutationStampsUpdatedAt ==
    [][\A r \in reg : \A q \in reg' :
           q.pmid = r.pmid /\ q # r =>
               /\ q.updated_at = now
               /\ q.created_at = r.created_at]_vars

\* C22: ingesting a report that chunk execution saved as parquet leaves the
\* registry as ingesting the same results saved as CSV does.
C22_ParquetIngestEqualsCsvIngest ==
    [][last'.op = "update-parquet" /\ last'.ret.read =>
           reg' = UpdateRows([table |-> reg, updated |-> 0,
                              raised |-> FALSE],
                             CsvRows(last'.ret.results), now,
                             engine).table]_vars

\* the work items of the windows (k * c, c), (k * c + c, c), ... that tile
\* the rows of manifest m from row k * c on, window after window
RECURSIVE C23_Windows(_, _, _)
C23_Windows(m, c, k) ==
    IF k * c >= Len(m) THEN <<>>
    ELSE load_manifest(m, k * c, c) \o C23_Windows(m, c, k + 1)

\* C23: for the manifest of a chunk run and every window size, the windows
\* that tile its rows load, one after the other, exactly the work items of
\* the whole manifest in order, each once.
C23_WindowsTileTheManifest ==
    last.op = "process" =>
        \A c \in 1..MaxRows :
            C23_Windows(last.ret.manifest, c, 0) =
                load_manifest(last.ret.manifest, 0, NoCount)

\* C24: in every reachable registry state every record has
\* updated_at >= created_at.
C24_UpdatedNotBeforeCreated ==
    \A r \in reg : r.updated_at >= r.created_at

\* a record that was inserted by one command and changed by a later one
C24_Witness ==
    \E r \in reg : r.updated_at > r.created_at /\ r.created_at > 0

\* C25: after scan-outputs has run, every record whose id has a content-list
\* artifact in the output tree is completed with a json_path; no id is
\* created, and a record without an artifact is as it was.
C25_ReconcileCompletesArtifacts ==
    [][last'.op = "scan-outputs" /\ ~last'.pre /\ now' # now =>
           /\ Pmids(reg') = Pmids(reg)
           /\ \A r \in reg : r.pmid \notin last'.ret.seen => r \in reg'
           /\ \A n \in reg' :
                  n.pmid \in last'.ret.seen =>
                      n.status = completed /\ n.json_path # NULL]_vars

\* C26: for n ids and chunk size k > 0 every chunk written is non-empty and
\* has at most k ids, every chunk but the last has exactly k, and the last
\* has n mod k ids (k when k divides n); for n = 0 no chunk is written.
C26_ChunkSizes ==
    last.op = "generate_swarm" =>
        LET w == last.ret.written
            n == Len(last.ret.pmids)
            k == last.ret.chunk_size
        IN  /\ n = 0 => w = <<>>
            /\ \A i \in 1..Len(w) :
                   /\ Len(w[i]) >= 1
                   /\ Len(w[i]) <= k
                   /\ i < Len(w) => Len(w[i]) = k
                   /\ i = Len(w) =>
                          Len(w[i]) = IF n % k = 0 THEN k ELSE n % k

\* a plan of two or more chunks whose last chunk is full
C26_Witness ==
    /\ last.op = "generate_swarm"
    /\ last.ret.chunk_size >= 2
    /\ Len(last.ret.written) >= 2
    /\ Len(last.ret.pmids) % last.ret.chunk_size = 0
    /\ Len(last.ret.written[Len(last.ret.written)]) = last.ret.chunk_size

\* C27: update, scan-outputs and retry-failed leave pmid, pdf_path,
\* file_size and created_at of every record as they were; update-sizes
\* changes no field of any record but file_size.
C27_FrameOfMutations ==
    [][/\ last'.op \in {"update", "scan-outputs", "retry-failed"}
          /\ now' # now =>
              \A r \in reg : \E n \in reg' :
                  /\ n.pmid = r.pmid
                  /\ n.pdf_path = r.pdf_path
                  /\ n.file_size = r.file_size
                  /\ n.created_at = r.created_at
       /\ last'.op = "update-sizes" /\ now' # now =>
              \A r \in reg : \E n \in reg' :
                  n = [r EXCEPT !.file_size = n.file_size]]_vars

\* update-sizes has just filled in the size of a record that an earlier
\* report made failed
C27_Witness ==
    /\ last.op = "update-sizes"
    /\ last.ret.updated >= 1
    /\ \E r \in reg :
          /\ r.status = failed
          /\ r.file_size # NoSize
          /\ r.error_msg # NULL

\* C28: no command removes a record or changes a record's id: every id in
\* the registry before a step is in it after the step, and the ids stay
\* unique.
C28_IdsOnlyGrow ==
    [][/\ Pmids(reg) \subseteq Pmids(reg')
       /\ Cardinality(reg') >= Cardinality(reg)
       /\ UniquePmids(reg')]_vars

\* a registry of two records after retry-failed has reset one of them
C28_Witness ==
    /\ last.op = "retry-failed"
    /\ last.ret.reset >= 1
    /\ Cardinality(Pmids(reg)) = 2

\* C29: a chunk run, whether it runs to its end, aborts or is killed on the
\* way, leaves every record of the registry as it was.
C29_ChunkRunLeavesRegistry ==
    [][last'.op \in {"process", "process-killed"} /\ now' # now =>
           reg' = reg /\ db' = db]_vars

\* a chunk run has just reported an item completed whose record is still
\* pending
C29_Witness ==
    /\ last.op = "process"
    /\ last.ret.written
    /\ \E r \in reg : \E i \in 1..Len(last.ret.results) :
          /\ last.ret.results[i].pmid = r.pmid
          /\ last.ret.results[i].status = completed
          /\ r.status = pending

\* C30: retry-failed, export-pending and export-failed have closed their
\* registry connection when they return, on every return path.
C30_ConnectionClosedOnReturn ==
    last.op \in {"retry-failed", "export-pending", "export-failed"} =>
        ~last.ret.left_open

\* C31: for one result report, ingestion by the registry's update command
\* and ingestion by the merge script run with --update-registry leave the
\* registry in the same state, also when the report's column names differ
\* from the canonical ones in letter case or surrounding whitespace.
C31_UpdateEqualsMergeUpdate ==
    [][/\ last'.op = "update-csv" /\ ~last'.pre =>
              reg' = update_registry(reg, MergeRecords(last'.ret.report),
                                     now, engine).table
       /\ last'.op = "merge-csv" /\ ~last'.pre /\ db =>
              reg' = UpdateRows([table |-> reg, updated |-> 0,
                                 raised |-> FALSE],
                                UpdateResults(last'.ret.report), now,
                                engine).table]_vars

\* C32: every result row that processing one item returns has status
\* completed or failed, never pending, and a failed row carries an error
\* message that is not null, whatever the item met: source missing,
\* non-zero exit, exception, timeout, no artifact.
C32_ResultIsCompletedOrFailedWithMessage ==
    last.op = "process" =>
        \A i \in 1..Len(last.ret.results) :
            LET result == last.ret.results[i]
            IN  /\ result.status \in {completed, failed}
                /\ result.status = failed => result.error_msg # NULL
                /\ result.status = completed <=>
                       /\ last.ret.met[i].exists
                       /\ last.ret.met[i].run = "ok"
                       /\ last.ret.met[i].artifact # "none"

\* one run returned a failed row for an extractor that exited non-zero with
\* nothing on stderr, and a completed row for another item
C32_Witness ==
    /\ last.op = "process"
    /\ \E i, j \in 1..Len(last.ret.results) :
          /\ last.ret.results[i].status = failed
          /\ last.ret.met[i].run = "nonzero"
          /\ last.ret.met[i].stderr = <<>>
          /\ last.ret.results[i].error_msg = <<"Unknown error">>
          /\ last.ret.results[j].status = completed

\* C33: the size-filtered export emits only records whose status is pending
\* or failed and whose size is known and lies within every bound given:
\* at least the minimum when one is given and at most the maximum when one
\* is given, for every bound value, 0 included.
C33_ExportBySizeWithinBounds ==
    last.op = "export-by-size" /\ ~last.pre =>
        \A k \in 1..Len(last.ret.entries) :
            \E r \in reg :
                /\ r.pmid = last.ret.entries[k].pmid
                /\ r.pdf_path = last.ret.entries[k].pdf_path
                /\ r.status \in {pending, failed}
                /\ r.file_size # NoSize
                /\ last.ret.min_size # NoBound =>
                       r.file_size >= to_bytes(last.ret.min_size)
                /\ last.ret.max_size # NoBound =>
                       r.file_size <= to_bytes(last.ret.max_size)

\* C34: the number of updated entries that result ingestion reports equals
\* the number of report rows whose UPDATE modified a registry record: a row
\* whose id is absent from the registry is not counted.
C34_UpdatedCountsModifiedRecords ==
    [][/\ last'.op = "update-csv" /\ ~last'.pre /\ last'.ret.rc = 0 =>
              LET rows == UpdateResults(last'.ret.report)
              IN  last'.ret.updated =
                      Cardinality({i \in 1..Len(rows) :
                                      strip(rows[i].pmid) \in Pmids(reg)})
       /\ last'.op = "merge-csv" /\ ~last'.pre /\ last'.ret.rc = 0 /\ db =>
              LET rows == MergeRecords(last'.ret.report)
              IN  last'.ret.updated =
                      Cardinality({i \in 1..Len(rows) :
                                      strip(rows[i].pmid) \in Pmids(reg)})
      ]_vars

====
